---- MODULE Spec2Model ----
(***************************************************************************)
(* Model of the note-taking backend (src/server.js, with the assist routes *)
(* improve / generate-ideas of the Hugging Face variant in                 *)
(* src/unnamed/part_000).                                                  *)
(*                                                                         *)
(* Every request is an async Express handler chain.  A chain runs          *)
(* synchronously up to each `await`, so the steps of the model are the     *)
(* segments between awaits:                                                *)
(*   Receive       request arrives; authenticateToken runs up to           *)
(*                 `await client.verifyIdToken` (or answers 401); a route  *)
(*                 registered without the middleware starts its handler    *)
(*   VerifyReturn  the identity provider answers; on success next() runs   *)
(*                 the route handler up to its first await                 *)
(*   StoreReturn   the document store applies the single-document          *)
(*                 operation atomically and the handler answers            *)
(*   ProviderReturn the text provider answers and the handler answers      *)
(* A response leaves its connection free; the variable last holds the      *)
(* request answered most recently, with its response.  The clock is        *)
(* observed only where Date.now is read, so it advances there.             *)
(***************************************************************************)
EXTENDS Integers, Sequences, FiniteSets, TLC

\* ---------------------------------------------------------------- bounds
MaxSlots == 2
MaxRequests == 3
MaxNotes == 2
MaxClock == 1

\* ---------------------------------------------------------------- values
Users == {"A", "B"}
NoUser == "<none>"
Undefined == "<undefined>"
DefaultTitle == "Untitled Note"
DefaultContent == ""

TitleVals == {Undefined, "", "t"}
ContentVals == {Undefined, "", "c"}
BodyUserIdVals == {Undefined, "B"}

NoteIds == 1..MaxNotes

\* An optional string as a character sequence (for the values the code
\* splits or trims).
NoStr == [present |-> FALSE, chars |-> <<>>]
Str(cs) == [present |-> TRUE, chars |-> cs]

\* Authorization header values: absent, empty, scheme only, scheme and an
\* empty token, two spaces before the token, a token the identity provider
\* accepts and one it rejects.
Headers ==
    { NoStr, Str(<<>>), Str(<<"S">>), Str(<<"S", " ">>),
      Str(<<"S", " ", " ", "a">>),
      Str(<<"S", " ", "a">>), Str(<<"S", " ", "x">>) }

\* Assist input values: absent, empty, whitespace only, a word.
TextVals == { NoStr, Str(<<>>), Str(<<" ">>), Str(<<"w">>) }

NoteRoutes == {"list", "get", "create", "update", "delete"}
AssistRoutes == {"summarize", "improve", "ideas"}

\* ---------------------------------------------------------------- helpers
\* String.prototype.split(' ')
RECURSIVE Split(_)
Split(cs) ==
    IF cs = <<>> THEN << <<>> >>
    ELSE IF Head(cs) = " " THEN << <<>> >> \o Split(Tail(cs))
    ELSE LET r == Split(Tail(cs)) IN << <<Head(cs)>> \o Head(r) >> \o Tail(r)

\* String.prototype.trim()
RECURSIVE TrimLeft(_)
TrimLeft(cs) ==
    IF cs # <<>> /\ Head(cs) = " " THEN TrimLeft(Tail(cs)) ELSE cs

RECURSIVE TrimRight(_)
TrimRight(cs) ==
    IF cs # <<>> /\ cs[Len(cs)] = " "
    THEN TrimRight(SubSeq(cs, 1, Len(cs) - 1)) ELSE cs

Trim(cs) == TrimRight(TrimLeft(cs))

\* JavaScript truthiness of an optional string
Truthy(v) == v.present /\ v.chars # <<>>

\* (variant: the scheme word is taken for the token, split(' ')[0])
ExtractFirstPart(h) ==
    IF ~Truthy(h) THEN h ELSE Str(Split(h.chars)[1])

\* const token = authHeader && authHeader.split(' ')[1];
ExtractToken(h) ==
    IF ~Truthy(h) THEN h
    ELSE LET parts == Split(h.chars)
         IN IF Len(parts) >= 2 THEN Str(parts[2]) ELSE NoStr

\* client.verifyIdToken: the subject the identity provider vouches for, for
\* the tokens it accepts.
TokenSubject(tok) ==
    IF tok = Str(<<"a">>) THEN "A"
    ELSE IF tok = Str(<<"b">>) THEN "B"
    ELSE NoUser

\* (variant: only an absent field takes the default, title ?? 'Untitled Note')
OrDefaultIfAbsent(v, d) == IF v = Undefined THEN d ELSE v

\* title || 'Untitled Note'   /   content || ''
OrDefault(v, d) == IF v = Undefined \/ v = "" THEN d ELSE v

\* Which routes are registered with the authenticateToken middleware.
RequiresAuth(route) == route \in NoteRoutes \cup {"summarize"}

\* ---------------------------------------------------------------- notes
NoNote ==
    [id |-> 0, userId |-> NoUser, title |-> Undefined,
     content |-> Undefined, createdAt |-> -1, updatedAt |-> -1]

\* The :id parameter of a route that has none.
NoId == NoNote.id

\* new Note({userId, title: title || ..., content: content || ...}); the
\* schema defaults createdAt and updatedAt are two reads of Date.now.
NewNote(id, uid, title, content, t1, t2) ==
    [id |-> id, userId |-> uid,
     title |-> OrDefault(title, DefaultTitle),
     content |-> OrDefault(content, DefaultContent),
     createdAt |-> t1, updatedAt |-> t2]

\* The store is the set of documents of the notes collection.
\* (variant: the filter omits userId)
MatchesIdOnly(n, id, uid) == n.id = id

Matches(n, id, uid) == n.id = id /\ n.userId = uid

\* Note.findOne({_id, userId})
FindOne(st, id, uid) ==
    IF \E n \in st : Matches(n, id, uid)
    THEN CHOOSE n \in st : Matches(n, id, uid)
    ELSE NoNote

\* The owner recorded on the document with this id, if there is one.
IdOwner(st, id) ==
    IF \E n \in st : n.id = id
    THEN (CHOOSE n \in st : n.id = id).userId
    ELSE NoUser

\* Note.find({userId})
Find(st, uid) == { n \in st : n.userId = uid }

\* (variant: ascending, .sort({updatedAt: 1}))
SortedAsc(ns) ==
    { sq \in [1..Cardinality(ns) -> ns] :
        /\ \A i, j \in 1..Cardinality(ns) : i # j => sq[i] # sq[j]
        /\ \A i, j \in 1..Cardinality(ns) :
              i < j => sq[i].updatedAt <= sq[j].updatedAt }

\* .sort({updatedAt: -1}): the orders the store may return, ties in any order
SortedDesc(ns) ==
    { sq \in [1..Cardinality(ns) -> ns] :
        /\ \A i, j \in 1..Cardinality(ns) : i # j => sq[i] # sq[j]
        /\ \A i, j \in 1..Cardinality(ns) :
              i < j => sq[i].updatedAt >= sq[j].updatedAt }

\* (variant: a field absent from the request is left as it was)
ApplyUpdateIfPresent(n, title, content, ts) ==
    [n EXCEPT !.title = IF title = Undefined THEN n.title ELSE title,
              !.content = IF content = Undefined THEN n.content ELSE content,
              !.updatedAt = ts]

\* (variant: the update document lacks updatedAt)
ApplyUpdateNoRefresh(n, title, content, ts) ==
    [n EXCEPT !.title = title, !.content = content]

\* (variant: the newer of the two timestamps is kept,
\* updatedAt: {$max: Date.now()})
ApplyUpdateKeepNewest(n, title, content, ts) ==
    [n EXCEPT !.title = title, !.content = content,
              !.updatedAt = IF ts > n.updatedAt THEN ts ELSE n.updatedAt]

\* The update document {title, content, updatedAt: Date.now()} applied to n
ApplyUpdate(n, title, content, ts) ==
    [n EXCEPT !.title = title, !.content = content, !.updatedAt = ts]

\* (variant: {upsert: true}, a document is inserted when none matches)
StoreAfterUpsert(st, id, uid, title, content, ts) ==
    IF \E n \in st : Matches(n, id, uid)
    THEN { IF Matches(n, id, uid) THEN ApplyUpdate(n, title, content, ts)
                                  ELSE n : n \in st }
    ELSE st \cup { [id |-> id, userId |-> uid, title |-> title,
                    content |-> content, createdAt |-> ts, updatedAt |-> ts] }

\* (variant: every note of the caller is updated, updateMany({userId}))
StoreAfterUpdateMany(st, id, uid, title, content, ts) ==
    IF \E n \in st : Matches(n, id, uid)
    THEN { IF n.userId = uid THEN ApplyUpdate(n, title, content, ts) ELSE n
             : n \in st }
    ELSE st

\* Note.findOneAndUpdate(filter, update, {new: true}): the store afterwards
StoreAfterUpdate(st, id, uid, title, content, ts) ==
    { IF Matches(n, id, uid) THEN ApplyUpdate(n, title, content, ts) ELSE n
        : n \in st }

\* ... and the document it returns
UpdatedDoc(st, id, uid, title, content, ts) ==
    FindOne(StoreAfterUpdate(st, id, uid, title, content, ts), id, uid)

\* (variant: the document is found but not removed, findOne for
\* findOneAndDelete)
StoreAfterFind(st, id, uid) == st

\* Note.findOneAndDelete(filter): the store afterwards
StoreAfterDelete(st, id, uid) == { n \in st : ~Matches(n, id, uid) }

\* note.save() of a new document
StoreAfterSave(st, doc) == st \cup {doc}

\* ---------------------------------------------------------------- responses
NoBody == [kind |-> "empty", error |-> "", note |-> NoNote, list |-> <<>>,
           text |-> Undefined]
ErrorBody(msg) == [NoBody EXCEPT !.kind = "error", !.error = msg]
NoteBody(n) == [NoBody EXCEPT !.kind = "note", !.note = n]
ListBody(sq) == [NoBody EXCEPT !.kind = "list", !.list = sq]
TextBody(t) == [NoBody EXCEPT !.kind = "text", !.text = t]

\* The message of each handler's catch block.
FailureMessage(route) ==
    CASE route = "list" -> "Failed to fetch notes"
      [] route = "get" -> "Failed to fetch note"
      [] route = "create" -> "Failed to create note"
      [] route = "update" -> "Failed to update note"
      [] route = "delete" -> "Failed to delete note"
      [] route = "summarize" -> "Failed to summarize text"
      [] route = "improve" -> "Failed to improve text"
      [] route = "ideas" -> "Failed to generate ideas"

\* (variant: a note of another owner is answered 403)
GetOneResponseForbidden(st, id, uid) ==
    LET note == FindOne(st, id, uid)
    IN IF note # NoNote
       THEN [status |-> 200, body |-> NoteBody(note)]
       ELSE IF IdOwner(st, id) # NoUser
            THEN [status |-> 403, body |-> ErrorBody("Forbidden")]
            ELSE [status |-> 404, body |-> ErrorBody("Note not found")]

\* GET /api/notes/:id after the store answered
GetOneResponse(st, id, uid) ==
    LET note == FindOne(st, id, uid)
    IN IF note = NoNote
       THEN [status |-> 404, body |-> ErrorBody("Note not found")]
       ELSE [status |-> 200, body |-> NoteBody(note)]

\* PUT /api/notes/:id after the store answered
UpdateResponse(st, id, uid, title, content, ts) ==
    LET note == UpdatedDoc(st, id, uid, title, content, ts)
    IN IF note = NoNote
       THEN [status |-> 404, body |-> ErrorBody("Note not found")]
       ELSE [status |-> 200, body |-> NoteBody(note)]

\* DELETE /api/notes/:id after the store answered
DeleteResponse(st, id, uid) ==
    LET result == FindOne(st, id, uid)
    IN IF result = NoNote
       THEN [status |-> 404, body |-> ErrorBody("Note not found")]
       ELSE [status |-> 204, body |-> NoBody]

\* ---------------------------------------------------------------- state
VARIABLES
    store,      \* the documents of the notes collection
    reqs,       \* slot -> the request in flight in it
    last,       \* the request answered most recently, with its response
    nextId,     \* the next _id the ODM generates
    now,        \* the latest value Date.now returned
    served,     \* requests received so far
    deleted,    \* id -> the user whose Delete removed it (history)
    scenario    \* the population the requests are drawn from

vars == <<store, reqs, last, nextId, now, served, deleted, scenario>>

Slots == 1..MaxSlots

Idle ==
    [pc |-> "idle", route |-> "list", header |-> NoStr, id |-> NoId,
     title |-> Undefined, content |-> Undefined, bodyUserId |-> Undefined,
     text |-> NoStr, topic |-> NoStr,
     token |-> NoStr, user |-> NoUser,
     verifyCalled |-> FALSE, handlerRan |-> FALSE, storeCalled |-> FALSE,
     providerCalled |-> FALSE, storeFailed |-> FALSE, outcome |-> "none",
     doc |-> NoNote, ts |-> -1, idOwner |-> NoUser,
     status |-> 0, body |-> NoBody, responses |-> 0]

\* A request: a route, an Authorization header, and the parameters and body
\* fields the route reads (plus a userId in the body, which no route reads).
NoteRequest(rt, h, i, t, c, bu) ==
    [Idle EXCEPT !.route = rt, !.header = h, !.id = i, !.title = t,
                 !.content = c, !.bodyUserId = bu]

AssistRequest(rt, h, x, tp) ==
    [Idle EXCEPT !.route = rt, !.header = h, !.text = x, !.topic = tp]

HeaderA == Str(<<"S", " ", "a">>)
HeaderB == Str(<<"S", " ", "b">>)

List(h) == NoteRequest("list", h, NoId, Undefined, Undefined, Undefined)
Create(h, t, c, bu) == NoteRequest("create", h, NoId, t, c, bu)
GetOne(h, i) == NoteRequest("get", h, i, Undefined, Undefined, Undefined)
Update(h, i, t, c) == NoteRequest("update", h, i, t, c, Undefined)
Delete(h, i) == NoteRequest("delete", h, i, Undefined, Undefined, Undefined)

\* The populations of requests explored, one per behaviour.
\* "others": user B works on the id of user A's note.
OthersRequests ==
    { Create(HeaderA, Undefined, Undefined, Undefined),
      GetOne(HeaderB, 1), Update(HeaderB, 1, "t", Undefined),
      Delete(HeaderB, 1), List(HeaderB) }

\* "owner": user A works on the id of the first note.
OwnerRequests ==
    { Create(HeaderA, Undefined, Undefined, Undefined),
      GetOne(HeaderA, 1), Update(HeaderA, 1, "t", Undefined),
      Delete(HeaderA, 1), List(HeaderA) }

\* "lists": two users create, one modifies and lists.
ListsRequests ==
    { Create(HeaderA, Undefined, Undefined, Undefined),
      Create(HeaderB, Undefined, Undefined, Undefined),
      Update(HeaderA, 1, "t", Undefined), List(HeaderA) }

\* "titles", "contents": every value of a body field of a Create, and a Get
\* one.
TitlesRequests ==
    { Create(HeaderA, t, Undefined, Undefined) : t \in TitleVals }
    \cup { GetOne(HeaderA, 1) }

ContentsRequests ==
    { Create(HeaderA, Undefined, c, bu) :
        c \in ContentVals \ {Undefined}, bu \in BodyUserIdVals \ {Undefined} }
    \cup { GetOne(HeaderA, 1) }

\* "newtitles", "newcontents": every value of a body field of an Update.
NewTitlesRequests ==
    { Create(HeaderA, "t", "c", "B") }
    \cup { Update(HeaderA, 1, t, "c") : t \in TitleVals }

NewContentsRequests ==
    { Create(HeaderA, "t", "c", "B") }
    \cup { Update(HeaderA, 1, "t", c) : c \in ContentVals \ {"c"} }

\* "failwrites", "failreads": the store and the identity provider may fail.
FailWritesRequests ==
    { Create(HeaderA, Undefined, Undefined, Undefined),
      Update(HeaderA, 1, "t", Undefined), Delete(HeaderA, 1) }

FailReadsRequests ==
    { Create(HeaderA, Undefined, Undefined, Undefined),
      GetOne(HeaderB, 1), List(HeaderA) }

\* "racing": the owner sends two different Updates of the same note.
RacingRequests ==
    { Create(HeaderA, Undefined, Undefined, Undefined),
      Update(HeaderA, 1, "t", Undefined), Update(HeaderA, 1, "", "c") }

\* One population per route behind the middleware: every header.
HeadersRequests(rt) ==
    { CASE rt = "list" -> List(h)
        [] rt = "create" -> Create(h, Undefined, Undefined, Undefined)
        [] rt = "get" -> GetOne(h, 1)
        [] rt = "update" -> Update(h, 1, "t", Undefined)
        [] rt = "delete" -> Delete(h, 1)
        [] rt = "summarize" -> AssistRequest(rt, h, Str(<<"w">>), NoStr)
      : h \in Headers }

\* One population per assist route: every value of its input field.
AssistRequests(rt) ==
    CASE rt = "summarize" ->
           { AssistRequest(rt, HeaderA, x, NoStr) : x \in TextVals }
      [] rt = "improve" -> { AssistRequest(rt, NoStr, x, NoStr) : x \in TextVals }
      [] rt = "ideas" -> { AssistRequest(rt, NoStr, NoStr, tp) : tp \in TextVals }

Scenarios ==
    [kind : {"others", "owner", "lists", "titles", "contents", "newtitles",
             "newcontents", "failwrites", "failreads", "racing"},
     route : {"any"}]
    \cup [kind : {"headers"}, route : NoteRoutes \cup {"summarize"}]
    \cup [kind : {"assist"}, route : AssistRoutes]

Requests(sc) ==
    CASE sc.kind = "others" -> OthersRequests
      [] sc.kind = "owner" -> OwnerRequests
      [] sc.kind = "lists" -> ListsRequests
      [] sc.kind = "titles" -> TitlesRequests
      [] sc.kind = "contents" -> ContentsRequests
      [] sc.kind = "newtitles" -> NewTitlesRequests
      [] sc.kind = "newcontents" -> NewContentsRequests
      [] sc.kind = "failwrites" -> FailWritesRequests
      [] sc.kind = "failreads" -> FailReadsRequests
      [] sc.kind = "racing" -> RacingRequests
      [] sc.kind = "headers" -> HeadersRequests(sc.route)
      [] sc.kind = "assist" -> AssistRequests(sc.route)

\* Whether the store and the identity provider may fail in this population.
Faulty(sc) == sc.kind \in {"failwrites", "failreads"}

\* res.status(...).json(...) / .send(), after which the handler returns.
Respond(r, status, body) ==
    [r EXCEPT !.pc = "done", !.status = status, !.body = body,
              !.responses = r.responses + 1]

Init ==
    /\ store = {}
    /\ reqs = [s \in Slots |-> Idle]
    /\ last = Idle
    /\ nextId = 1
    /\ now = 0
    /\ served = 0
    /\ deleted = [i \in NoteIds |-> NoUser]
    /\ scenario \in Scenarios

\* ---------------------------------------------------------------- handlers
\* (variant: the 401 is sent without `return`, and the middleware goes on to
\* the verification)
AuthenticateTokenNoReturn(r) ==
    LET token == ExtractToken(r.header)
    IN IF ~Truthy(token)
       THEN [r EXCEPT !.pc = "verifying", !.token = token,
                      !.verifyCalled = TRUE, !.status = 401,
                      !.body = ErrorBody("Unauthorized"),
                      !.responses = r.responses + 1]
       ELSE [r EXCEPT !.pc = "verifying", !.token = token,
                      !.verifyCalled = TRUE]

\* authenticateToken up to `await client.verifyIdToken(...)`
AuthenticateToken(r) ==
    LET token == ExtractToken(r.header)
    IN IF ~Truthy(token)
       THEN Respond([r EXCEPT !.token = token], 401, ErrorBody("Unauthorized"))
       ELSE [r EXCEPT !.pc = "verifying", !.token = token,
                      !.verifyCalled = TRUE]

\* (variant: the guard tests presence only, text === undefined)
MissingInputIfAbsent(r) ==
    CASE r.route = "summarize" -> ~r.text.present
      [] r.route = "improve" -> ~r.text.present
      [] r.route = "ideas" -> ~r.topic.present

\* The guard of each assist handler on its input field.
MissingInput(r) ==
    CASE r.route = "summarize" ->
            ~r.text.present \/ Trim(r.text.chars) = <<>>
      [] r.route = "improve" -> ~Truthy(r.text)
      [] r.route = "ideas" -> ~Truthy(r.topic)

MissingInputMessage(route) ==
    IF route = "ideas" THEN "Topic is required" ELSE "Text is required"

\* (variant: the body is spread into the document, new Note({...req.body}))
OwnerFromBody(r) ==
    IF r.bodyUserId # Undefined THEN r.bodyUserId ELSE r.user

\* userId: req.user.id
OwnerOf(r) == r.user

\* A route handler from its entry up to its first await: t is the value of
\* Date.now, id the _id generated for a new document, d the advance of the
\* clock between the two schema defaults of a new document.
StartHandler(r, t, id, d) ==
    LET h == [r EXCEPT !.handlerRan = TRUE]
        q == [h EXCEPT !.pc = "store", !.storeCalled = TRUE]
    IN CASE r.route \in {"list", "get", "delete"} -> q
         [] r.route = "create" ->
              [q EXCEPT !.doc = NewNote(id, OwnerOf(r), r.title, r.content,
                                        t, t + d)]
         [] r.route = "update" -> [q EXCEPT !.ts = t]
         [] r.route \in AssistRoutes ->
              IF MissingInput(r)
              THEN Respond(h, 400, ErrorBody(MissingInputMessage(r.route)))
              ELSE [h EXCEPT !.pc = "provider", !.providerCalled = TRUE]

\* The request of slot s becomes r: still in flight, or answered, which
\* frees the slot.
Settle(s, r) ==
    IF r.pc = "done"
    THEN reqs' = [reqs EXCEPT ![s] = Idle] /\ last' = r
    ELSE reqs' = [reqs EXCEPT ![s] = r] /\ last' = last

\* The values a read of Date.now can return after it returned t.
ClockAfter(t) == { u \in {t, t + 1} : u <= MaxClock }

\* How many times the handler of a route reads Date.now before its first
\* await.
ClockReads(route) ==
    CASE route = "create" -> 2
      [] route = "update" -> 1
      [] OTHER -> 0

RunHandler(s, r) ==
    \E t1 \in ClockAfter(now) :
      \E t2 \in ClockAfter(t1) :
        /\ ClockReads(r.route) < 1 => t1 = now
        /\ ClockReads(r.route) < 2 => t2 = t1
        /\ Settle(s, StartHandler(r, t1, nextId, t2 - t1))
        /\ nextId' = IF r.route = "create" THEN nextId + 1 ELSE nextId
        /\ now' = t2
        /\ UNCHANGED <<store, deleted>>

\* Create requests that have not yet taken their _id.
PendingCreates ==
    Cardinality({ s \in Slots :
                    reqs[s].route = "create" /\ reqs[s].pc = "verifying" })

\* ---------------------------------------------------------------- actions
\* A request arrives.  Connections are interchangeable: the first free one
\* takes it.
Free(s) == reqs[s].pc = "idle"

Receive(s) ==
    /\ Free(s)
    /\ \A s2 \in Slots : s2 < s => ~Free(s2)
    /\ served < MaxRequests
    /\ served' = served + 1
    /\ UNCHANGED scenario
    /\ \E r \in Requests(scenario) :
          /\ r.route = "create" => nextId + PendingCreates <= MaxNotes
          /\ IF RequiresAuth(r.route)
             THEN /\ Settle(s, AuthenticateToken(r))
                  /\ UNCHANGED <<store, nextId, now, deleted>>
             ELSE RunHandler(s, r)

\* client.verifyIdToken answers: it resolves only for a token it accepts and
\* may reject any token.
VerifyReturn(s) ==
    /\ reqs[s].pc = "verifying"
    /\ UNCHANGED <<served, scenario>>
    /\ \E ok \in BOOLEAN :
          /\ ok => TokenSubject(reqs[s].token) # NoUser
          /\ ~ok => TokenSubject(reqs[s].token) = NoUser \/ Faulty(scenario)
          /\ IF ok
             THEN RunHandler(s, [reqs[s] EXCEPT
                                   !.user = TokenSubject(reqs[s].token)])
             ELSE /\ Settle(s, Respond(reqs[s], 403,
                                       ErrorBody("Invalid token")))
                  /\ UNCHANGED <<store, nextId, now, deleted>>

\* What the store holds after the operation of request r.
StoreAfter(st, r) ==
    CASE r.route = "create" -> StoreAfterSave(st, r.doc)
      [] r.route = "update" ->
           StoreAfterUpdate(st, r.id, r.user, r.title, r.content, r.ts)
      [] r.route = "delete" -> StoreAfterDelete(st, r.id, r.user)
      [] OTHER -> st

\* The responses request r can get once the store has answered.
StoreResponses(st, r) ==
    CASE r.route = "list" ->
           { [status |-> 200, body |-> ListBody(sq)] :
               sq \in SortedDesc(Find(st, r.user)) }
      [] r.route = "get" -> { GetOneResponse(st, r.id, r.user) }
      [] r.route = "create" -> { [status |-> 201, body |-> NoteBody(r.doc)] }
      [] r.route = "update" ->
           { UpdateResponse(st, r.id, r.user, r.title, r.content, r.ts) }
      [] r.route = "delete" -> { DeleteResponse(st, r.id, r.user) }

\* The store round trip of a note route ends: the operation is applied and
\* answered, or the call throws and the catch block answers 500.
StoreReturn(s) ==
    /\ reqs[s].pc = "store"
    /\ UNCHANGED <<nextId, now, served, scenario>>
    /\ \E fails \in BOOLEAN :
          /\ fails => Faulty(scenario)
          /\ IF fails
             THEN /\ Settle(s, Respond([reqs[s] EXCEPT !.storeFailed = TRUE],
                                  500, ErrorBody(FailureMessage(reqs[s].route))))
                  /\ UNCHANGED <<store, deleted>>
             ELSE \E resp \in StoreResponses(store, reqs[s]) :
                     /\ Settle(s, Respond([reqs[s] EXCEPT
                                      !.idOwner = IdOwner(store, reqs[s].id)],
                                   resp.status, resp.body))
                     /\ store' = StoreAfter(store, reqs[s])
                     /\ deleted' =
                           IF reqs[s].route = "delete" /\ resp.status = 204
                           THEN [deleted EXCEPT ![reqs[s].id] = reqs[s].user]
                           ELSE deleted

\* What the text provider round trip can end in: a result, a thrown error
\* (error status or network failure), a response without the expected array,
\* a response whose first element lacks the expected field.
ProviderOutcomes == {"ok", "throws", "noarray", "nofield"}

AssistResponse(route, outcome) ==
    CASE outcome = "ok" -> [status |-> 200, body |-> TextBody("result")]
      [] outcome = "nofield" /\ route = "ideas" ->
           [status |-> 200, body |-> TextBody("1.undefined")]
      [] outcome = "nofield" /\ route # "ideas" ->
           [status |-> 200, body |-> TextBody(Undefined)]
      [] OTHER -> [status |-> 500, body |-> ErrorBody(FailureMessage(route))]

ProviderReturn(s) ==
    /\ reqs[s].pc = "provider"
    /\ UNCHANGED <<store, nextId, now, served, deleted, scenario>>
    /\ \E outcome \in ProviderOutcomes :
          LET resp == AssistResponse(reqs[s].route, outcome)
          IN Settle(s, Respond([reqs[s] EXCEPT !.outcome = outcome],
                               resp.status, resp.body))

Next ==
    \/ \E s \in Slots : Receive(s)
    \/ \E s \in Slots : VerifyReturn(s)
    \/ \E s \in Slots : StoreReturn(s)
    \/ \E s \in Slots : ProviderReturn(s)

Spec == Init /\ [][Next]_vars

\* Every external call returns or fails: a pending verification, store round
\* trip or provider round trip eventually ends.  The populations are those in
\* which the store and the identity provider may fail, those with every
\* header, and the assist ones.
ReturningInit ==
    /\ Init
    /\ Faulty(scenario) \/ scenario.kind \in {"headers", "assist"}

ReturningSpec ==
    /\ ReturningInit
    /\ [][Next]_vars
    /\ \A s \in Slots :
          /\ WF_vars(VerifyReturn(s))
          /\ WF_vars(StoreReturn(s))
          /\ WF_vars(ProviderReturn(s))

\* ---------------------------------------------------------------- properties
\* Slot s's store round trip ends in this step and its request is answered
\* (last' is the answered request).
StoreCompletes(s) == reqs[s].pc = "store" /\ reqs'[s].pc = "idle"

\* ... and the store did answer.
StoreAnswers(s) == StoreCompletes(s) /\ ~last'.storeFailed

NotFound == [status |-> 404, body |-> ErrorBody("Note not found")]

ResponseOf(r) == [status |-> r.status, body |-> r.body]

Ids(st) == { n.id : n \in st }

\* The requests in flight and the one answered last.
Records == { reqs[s] : s \in Slots } \cup {last}

\* C1: a note owned by user A is never returned to another user B by List or
\* Get one, and B's Get one, Update and Delete on its id answer 404 (500 when
\* the store call itself throws) and leave the store as it was.
C1_Isolation ==
    [][\A s \in Slots :
         StoreCompletes(s) =>
           LET r == reqs[s]
               q == last'
           IN /\ q.body.kind = "note" /\ r.route # "create" =>
                    q.body.note.userId = r.user
              /\ \A i \in 1..Len(q.body.list) : q.body.list[i].userId = r.user
              /\ ( /\ r.route \in {"get", "update", "delete"}
                   /\ \E n \in store : n.id = r.id /\ n.userId # r.user )
                 => /\ store' = store
                    /\ ~q.storeFailed => ResponseOf(q) = NotFound
                    /\ q.storeFailed => q.status = 500 /\ q.body.kind = "error"
      ]_vars

C1_Witness ==
    /\ last.pc = "done"
    /\ last.route \in {"update", "delete"}
    /\ last.user = "B"
    /\ last.idOwner = "A"
    /\ last.status = 404
    /\ \E n \in store : n.id = last.id /\ n.userId = "A"

\* The header carries no token: it is absent, or nothing follows the first
\* space.
NoTokenInHeader(h) ==
    \/ ~h.present
    \/ \A i \in 1..Len(h.chars) : h.chars[i] = " " => i = Len(h.chars)

\* C2: on a route behind the middleware, a request without a header or
\* without a token is answered 401 and the identity provider is not called;
\* a request whose verification fails is answered 403; in both cases the
\* handler has not run and no store call was made.
C2_AuthGate ==
    \A r \in Records :
        r.pc # "idle" /\ RequiresAuth(r.route) =>
          /\ NoTokenInHeader(r.header) =>
                /\ r.pc = "done" /\ r.status = 401
                /\ r.body = ErrorBody("Unauthorized")
                /\ ~r.verifyCalled /\ ~r.handlerRan /\ ~r.storeCalled
                /\ ~r.providerCalled
          /\ r.pc = "done" /\ r.verifyCalled /\ r.user = NoUser =>
                /\ r.status = 403
                /\ r.body = ErrorBody("Invalid token")
                /\ ~r.handlerRan /\ ~r.storeCalled /\ ~r.providerCalled
          /\ r.status \in {401, 403} => ~r.handlerRan /\ ~r.storeCalled
          /\ r.handlerRan => r.verifyCalled /\ r.user \in Users

C2_Witness ==
    /\ last.pc = "done" /\ last.status = 401
    /\ last.route = "delete"
    /\ last.header = Str(<<"S", " ">>)
    /\ ~last.verifyCalled

\* C3: for every note in the store and every other user B, B's Get one,
\* Update (with any body) and Delete on the note's id get the same response
\* as in the store without that note, and leave either store as it was.
C3_Indistinguishable ==
    \A n \in store :
      \A B \in Users \ {n.userId} :
        LET absent == store \ {n}
        IN /\ n.id \notin Ids(absent)
           /\ GetOneResponse(store, n.id, B) = NotFound
           /\ GetOneResponse(store, n.id, B) = GetOneResponse(absent, n.id, B)
           /\ DeleteResponse(store, n.id, B) = DeleteResponse(absent, n.id, B)
           /\ StoreAfterDelete(store, n.id, B) = store
           /\ StoreAfterDelete(absent, n.id, B) = absent
           /\ \A t \in {Undefined, "t"}, c \in {Undefined, "c"} :
                /\ UpdateResponse(store, n.id, B, t, c, now)
                     = UpdateResponse(absent, n.id, B, t, c, now)
                /\ StoreAfterUpdate(store, n.id, B, t, c, now) = store
                /\ StoreAfterUpdate(absent, n.id, B, t, c, now) = absent

\* A Get one was answered while another user's note had the id, with the
\* answer the store without that note gives.
C3_Witness ==
    /\ last.pc = "done" /\ last.route = "get"
    /\ last.idOwner \in Users \ {last.user}
    /\ \E n \in store :
          /\ n.id = last.id
          /\ ResponseOf(last) = GetOneResponse(store \ {n}, last.id, last.user)

\* C4: when the store answers a List, the response is 200 with exactly the
\* caller's notes, each once, a note with a larger updatedAt before one with a
\* smaller; with no notes of the caller it is 200 with an empty array.
C4_List ==
    [][\A s \in Slots :
         StoreAnswers(s) /\ reqs[s].route = "list" =>
           LET r == reqs[s]
               q == last'
               own == { n \in store : n.userId = r.user }
               l == q.body.list
           IN /\ q.status = 200 /\ q.body.kind = "list"
              /\ { l[i] : i \in 1..Len(l) } = own
              /\ Len(l) = Cardinality(own)
              /\ \A i, j \in 1..Len(l) :
                    i < j /\ l[i].updatedAt # l[j].updatedAt =>
                       l[i].updatedAt > l[j].updatedAt
              /\ own = {} => l = <<>>
              /\ store' = store
      ]_vars

C4_Witness ==
    /\ last.pc = "done" /\ last.route = "list"
    /\ last.status = 200
    /\ Len(last.body.list) = 2
    /\ last.body.list[1].updatedAt > last.body.list[2].updatedAt

\* C5 as claimed: the default is stored exactly when the field is absent and
\* a supplied value is stored unchanged.
C5_DefaultsOnlyWhenAbsent ==
    last.pc = "done" /\ last.route = "create" /\ last.status = 201 =>
       /\ last.body.note.title =
             IF last.title = Undefined THEN DefaultTitle ELSE last.title
       /\ last.body.note.content =
             IF last.content = Undefined THEN DefaultContent ELSE last.content

\* C5 (amended): Create stores the default title when the title is absent or
\* empty and the supplied title otherwise, the default content "" when the
\* content is absent and the supplied content otherwise; it answers 201 with
\* the created note, and a Get one by the caller on the store right after
\* answers 200 with that same note.
C5_Create ==
    [][\A s \in Slots :
         StoreAnswers(s) /\ reqs[s].route = "create" =>
           LET r == reqs[s]
               q == last'
               doc == q.body.note
           IN /\ q.status = 201 /\ q.body.kind = "note"
              /\ doc.title =
                    IF r.title \in {Undefined, ""} THEN "Untitled Note"
                                                   ELSE r.title
              /\ doc.content = IF r.content = Undefined THEN "" ELSE r.content
              /\ doc.userId = r.user
              /\ doc \in store'
              /\ GetOneResponse(store', doc.id, r.user)
                    = [status |-> 200, body |-> NoteBody(doc)]
      ]_vars

C5_Witness ==
    /\ last.pc = "done" /\ last.route = "create"
    /\ last.status = 201
    /\ last.title = ""
    /\ last.body.note.title = "Untitled Note"
    /\ last.body.note \in store

\* C6: a note enters the store only through the save of a Create, with the
\* verified subject of that request as userId whatever userId its body
\* carried; and no step changes the id, userId or createdAt of a stored note.
C6_OwnerAndCreation ==
    [][/\ \A m \in store' :
            m.id \notin Ids(store) =>
               \E s \in Slots :
                   /\ StoreAnswers(s) /\ reqs[s].route = "create"
                   /\ m = last'.body.note
                   /\ m.userId = TokenSubject(reqs[s].token)
                   /\ m.userId \in Users
       /\ \A n \in store, m \in store' :
            m.id = n.id => m.userId = n.userId /\ m.createdAt = n.createdAt
       /\ Cardinality(Ids(store')) = Cardinality(store')
      ]_vars

\* A note created with another user's id in the body belongs to the caller,
\* and still does after an Update.
C6_Witness ==
    /\ scenario.kind = "newtitles"
    /\ last.pc = "done" /\ last.route = "update"
    /\ last.status = 200
    /\ last.user = "A"
    /\ last.body.note.userId = "A"
    /\ last.body.note.updatedAt > last.body.note.createdAt
    /\ last.body.note \in store

\* C7: an Update whose id and caller match no note is answered 404 (500 when
\* the store call itself throws) and leaves the whole store as it was.
C7_UpdateNoMatch ==
    [][\A s \in Slots :
         ( /\ StoreCompletes(s) /\ reqs[s].route = "update"
           /\ ~\E n \in store :
                  n.id = reqs[s].id /\ n.userId = reqs[s].user )
         => /\ store' = store
            /\ ~last'.storeFailed => ResponseOf(last') = NotFound
            /\ last'.storeFailed => last'.status = 500
      ]_vars

C7_Witness ==
    /\ last.pc = "done" /\ last.route = "update"
    /\ last.status = 404
    /\ last.idOwner = NoUser
    /\ store # {}

\* C8: a Delete of a note the caller owns is answered 204 with an empty body
\* and removes the note; the id never returns to the store; and from then on
\* the owner's Delete, Get one and Update on that id are answered 404 and the
\* owner's List does not contain it.
C8_DeleteTwice ==
    [][/\ \A s \in Slots :
            StoreAnswers(s) =>
              LET r == reqs[s]
                  q == last'
              IN /\ ( /\ r.route = "delete"
                      /\ \E n \in store : n.id = r.id /\ n.userId = r.user )
                    => /\ q.status = 204 /\ q.body = NoBody
                       /\ r.id \notin Ids(store')
                       /\ deleted'[r.id] = r.user
                 /\ ( /\ r.route \in {"get", "update", "delete"}
                      /\ deleted[r.id] = r.user )
                    => ResponseOf(q) = NotFound /\ store' = store
                 /\ \A i \in 1..Len(q.body.list) :
                       deleted[q.body.list[i].id] = NoUser
       /\ \A i \in NoteIds :
            deleted[i] # NoUser => i \notin Ids(store) /\ i \notin Ids(store')
      ]_vars

C8_Witness ==
    /\ last.pc = "done" /\ last.route = "delete"
    /\ last.status = 404
    /\ ~last.storeFailed
    /\ deleted[last.id] = last.user

\* C9: an Update that matches a note of the caller stores the request's title
\* and content, an absent field included, and the timestamp the handler took;
\* every other field and every other note stay; the answer is 200 with the
\* note as stored.
C9_UpdateReplaces ==
    [][\A s \in Slots :
         ( /\ StoreAnswers(s) /\ reqs[s].route = "update"
           /\ \E n \in store : n.id = reqs[s].id /\ n.userId = reqs[s].user )
         => LET r == reqs[s]
                q == last'
                old == CHOOSE n \in store : n.id = r.id
                new == q.body.note
            IN /\ q.status = 200 /\ q.body.kind = "note"
               /\ new.title = r.title /\ new.content = r.content
               /\ new.updatedAt = r.ts /\ r.ts \in 0..now
               /\ new.id = old.id /\ new.userId = old.userId
               /\ new.createdAt = old.createdAt
               /\ store' = (store \ {old}) \cup {new}
      ]_vars

C9_Witness ==
    /\ scenario.kind = "newcontents"
    /\ last.pc = "done" /\ last.route = "update"
    /\ last.status = 200
    /\ last.title = "t" /\ last.content = Undefined
    /\ last.body.note.title = "t"
    /\ last.body.note.content = Undefined
    /\ last.body.note \in store

\* The required input field of an assist request is absent or empty.
InputAbsentOrEmpty(r) ==
    LET field == IF r.route = "ideas" THEN r.topic ELSE r.text
    IN ~field.present \/ field.chars = <<>>

\* C10: an assist request whose required input field is absent or empty never
\* reaches the text provider, and once its handler has run it is answered 400.
C10_AssistBadRequest ==
    \A r \in Records :
        r.pc # "idle" /\ r.route \in AssistRoutes /\ InputAbsentOrEmpty(r)
        => /\ ~r.providerCalled
           /\ r.pc # "provider"
           /\ r.handlerRan =>
                 /\ r.pc = "done" /\ r.status = 400
                 /\ r.body.kind = "error"

C10_Witness ==
    /\ last.pc = "done" /\ last.route = "ideas"
    /\ last.topic = Str(<<>>)
    /\ last.handlerRan /\ ~last.providerCalled
    /\ last.status = 400

\* Slot s's provider round trip ends in this step and its request is
\* answered (last' is the answered request).
ProviderCompletes(s) == reqs[s].pc = "provider" /\ reqs'[s].pc = "idle"

\* The provider round trip ended in a failure: an error status or a thrown
\* error, or a response without the expected result (no array, or no result
\* field in its first element).
ProviderFailed(r) == r.outcome \in {"throws", "noarray", "nofield"}

\* C11 as claimed: when the text provider fails in any way the assist request
\* is answered 500 with an error envelope, and whatever the outcome the step
\* that answers an assist request leaves the note store as it was.
C11_ProviderFailure ==
    [][\A s \in Slots :
         ProviderCompletes(s) =>
           /\ store' = store
           /\ ProviderFailed(last') =>
                 last'.status = 500 /\ last'.body.kind = "error"
      ]_vars

\* The fields of a request that its handling never changes.
Sent(r) == <<r.route, r.header, r.id, r.title, r.content, r.bodyUserId,
             r.text, r.topic>>

\* C12: a request in flight has no response yet; it leaves its connection
\* only by being answered, exactly once; a failed store call is answered 500
\* and a failed verification 403, both with an error envelope; and whenever
\* requests are in flight, a later state has all of them answered.
C12_ExactlyOneResponse ==
    /\ [](\A r \in Records :
            /\ r.pc \notin {"idle", "done"} => r.responses = 0
            /\ r.pc = "done" => r.responses = 1 /\ r.status # 0
            /\ r.storeFailed =>
                  /\ r.pc = "done" /\ r.status = 500
                  /\ r.body = ErrorBody(FailureMessage(r.route))
            /\ r.pc = "done" /\ r.verifyCalled /\ r.user = NoUser =>
                  r.status = 403 /\ r.body = ErrorBody("Invalid token"))
    /\ [][\A s \in Slots :
            reqs[s].pc # "idle" /\ reqs'[s] # reqs[s] =>
               /\ Sent(reqs'[s]) = Sent(reqs[s]) => reqs'[s].pc # "idle"
               /\ reqs'[s].pc = "idle" =>
                     /\ Sent(last') = Sent(reqs[s])
                     /\ last'.pc = "done" /\ last'.responses = 1
       ]_vars
    /\ (\E s \in Slots : reqs[s].pc # "idle")
          ~> (\A s \in Slots : reqs[s].pc = "idle")

\* A Delete whose store call threw was answered, once, with the envelope of
\* its catch block.
C12_Witness ==
    /\ last.pc = "done" /\ last.route = "delete"
    /\ last.storeFailed
    /\ last.responses = 1
    /\ last.status = 500
    /\ last.body = ErrorBody("Failed to delete note")

\* Another request of the same route, user and id is waiting for the store
\* while slot s's round trip ends.
Concurrent(s) ==
    \E s2 \in Slots \ {s} :
        /\ reqs[s2].pc = "store" /\ reqs'[s2] = reqs[s2]
        /\ reqs[s2].route = reqs[s].route
        /\ reqs[s2].user = reqs[s].user /\ reqs[s2].id = reqs[s].id

\* C13: an Update of the owner that the store applies while another Update
\* of the same note is in flight is answered 200, whichever of the two took
\* its timestamp first; and a stored note changes only by the store applying
\* one Update, after which its title, content and updatedAt are all those of
\* that one request.
C13_LastWriteWins ==
    [][/\ \A s \in Slots :
            ( /\ StoreAnswers(s) /\ reqs[s].route = "update" /\ Concurrent(s)
              /\ \E n \in store :
                     n.id = reqs[s].id /\ n.userId = reqs[s].user )
            => /\ last'.status = 200
               /\ \E m \in store' :
                     /\ m.id = reqs[s].id /\ last'.body.note = m
                     /\ m.title = reqs[s].title /\ m.content = reqs[s].content
                     /\ m.updatedAt = reqs[s].ts
       /\ \A n \in store, m \in store' :
            m.id = n.id /\ m # n =>
               \E s \in Slots :
                   /\ StoreAnswers(s) /\ reqs[s].route = "update"
                   /\ reqs[s].id = n.id /\ reqs[s].user = n.userId
                   /\ m.title = reqs[s].title /\ m.content = reqs[s].content
                   /\ m.updatedAt = reqs[s].ts
      ]_vars

\* Two different Updates of the owner were in flight together; the one that
\* took its timestamp later was applied first and answered 200, and the note
\* is as that request left it while the other still waits for the store.
C13_Witness ==
    /\ last.pc = "done" /\ last.route = "update" /\ last.status = 200
    /\ \E s \in Slots :
          /\ reqs[s].pc = "store" /\ reqs[s].route = "update"
          /\ reqs[s].id = last.id /\ reqs[s].user = last.user
          /\ reqs[s].title # last.title /\ reqs[s].content # last.content
          /\ reqs[s].ts < last.ts
    /\ \E n \in store :
          /\ n.id = last.id
          /\ n.title = last.title /\ n.content = last.content
          /\ n.updatedAt = last.ts

\* The notes with an id other than x.
Others(st, x) == { n \in st : n.id # x }

\* C14: a Create that succeeds adds exactly one note, with a new id, and
\* changes no other; an Update or Delete on id x that succeeds changes or
\* removes the note with id x and no other; List and Get one, and every step
\* that is not the store applying an operation, leave the store as it was.
C14_SingleDocument ==
    [][/\ \A s \in Slots :
            StoreAnswers(s) =>
              LET r == reqs[s]
                  q == last'
              IN /\ r.route = "create" /\ q.status = 201 =>
                       /\ store' = store \cup {q.body.note}
                       /\ q.body.note.id \notin Ids(store)
                       /\ Cardinality(store') = Cardinality(store) + 1
                 /\ r.route = "update" /\ q.status = 200 =>
                       /\ Others(store', r.id) = Others(store, r.id)
                       /\ Cardinality(store') = Cardinality(store)
                       /\ q.body.note \in store' /\ q.body.note.id = r.id
                 /\ r.route = "delete" /\ q.status = 204 =>
                       /\ Others(store', r.id) = Others(store, r.id)
                       /\ Cardinality(store') = Cardinality(store) - 1
                       /\ r.id \notin Ids(store')
                 /\ r.route \in {"list", "get"} => store' = store
       /\ store' # store =>
             \E s \in Slots :
                 StoreAnswers(s) /\ reqs[s].route \in {"create", "update", "delete"}
      ]_vars

\* An Update was applied to one of the caller's two notes; the other is as
\* it was created.
C14_Witness ==
    /\ last.pc = "done" /\ last.route = "update" /\ last.status = 200
    /\ last.body.note \in store
    /\ \E n \in Others(store, last.id) :
          /\ n.userId = last.user
          /\ n.title = DefaultTitle /\ n.title # last.title
          /\ n.updatedAt <= last.ts

\* A request of route rt for the same user and id as slot s's is waiting for
\* the store while slot s's round trip ends.
InFlightWith(s, rt) ==
    \E s2 \in Slots \ {s} :
        /\ reqs[s2].pc = "store" /\ reqs'[s2] = reqs[s2]
        /\ reqs[s2].route = rt
        /\ reqs[s2].user = reqs[s].user /\ reqs[s2].id = reqs[s].id

\* The caller of slot s's request owns the note with its id.
OwnsNote(s) == \E n \in store : n.id = reqs[s].id /\ n.userId = reqs[s].user

\* C15: no Update adds an id to the store.  With an Update and a Delete of
\* the owner's note in flight together: the Update applied first is answered
\* 200 and the note stays for the Delete, which is answered 204 and removes
\* it; the Delete applied first is answered 204 and the Update after it is
\* answered 404 and changes nothing; a removed note never returns.
C15_UpdateNeverCreates ==
    [][/\ \A s \in Slots :
            StoreAnswers(s) =>
              LET r == reqs[s]
                  q == last'
              IN /\ r.route = "update" => Ids(store') = Ids(store)
                 /\ r.route = "update" /\ InFlightWith(s, "delete") /\ OwnsNote(s)
                    => q.status = 200 /\ r.id \in Ids(store')
                 /\ r.route = "delete" /\ OwnsNote(s)
                    => q.status = 204 /\ r.id \notin Ids(store')
                 /\ r.route = "update" /\ deleted[r.id] = r.user
                    => ResponseOf(q) = NotFound /\ store' = store
       /\ \A i \in NoteIds : i \in Ids(store) /\ i \notin Ids(store') =>
             deleted'[i] # NoUser
       /\ \A i \in NoteIds : deleted[i] # NoUser =>
             deleted'[i] = deleted[i] /\ i \notin Ids(store')
      ]_vars

\* The Delete was applied first and answered 204 while the owner's Update of
\* the same note, whose handler had already run, still waits for the store.
C15_Witness ==
    /\ last.pc = "done" /\ last.route = "delete" /\ last.status = 204
    /\ deleted[last.id] = last.user
    /\ last.id \notin Ids(store)
    /\ \E s \in Slots :
          /\ reqs[s].pc = "store" /\ reqs[s].route = "update"
          /\ reqs[s].id = last.id /\ reqs[s].user = last.user

\* C16 as claimed: every stored note has createdAt <= updatedAt, and the
\* updatedAt of a stored note never decreases from one state to the next.
C16_TimestampsOrdered ==
    [][/\ \A m \in store' : m.createdAt <= m.updatedAt
       /\ \A n \in store, m \in store' :
            m.id = n.id => m.updatedAt >= n.updatedAt
      ]_vars

\* The handler of an Update in slot s runs in this step, up to its store
\* call.
UpdateStarts(s) ==
    /\ reqs[s].pc # "store" /\ reqs'[s].pc = "store"
    /\ reqs'[s].route = "update"

\* C16 (amended): a note enters the store with createdAt <= updatedAt, and
\* its createdAt never changes; the timestamp the handler of an Update takes
\* is at least the createdAt and the updatedAt of every note stored at that
\* moment, and it is the updatedAt of the note once the store applies that
\* Update; no stored or pending timestamp is ahead of the clock.
C16_Timestamps ==
    [][/\ \A m \in store' :
            /\ m.id \notin Ids(store) => m.createdAt <= m.updatedAt
            /\ m.createdAt <= now' /\ m.updatedAt <= now'
       /\ \A n \in store, m \in store' :
            m.id = n.id =>
               /\ m.createdAt = n.createdAt
               /\ m # n =>
                    \E s \in Slots :
                        /\ StoreAnswers(s) /\ reqs[s].route = "update"
                        /\ reqs[s].id = n.id
                        /\ m.updatedAt = reqs[s].ts
       /\ \A s \in Slots :
            UpdateStarts(s) =>
               /\ reqs'[s].ts = now'
               /\ \A n \in store :
                     n.createdAt <= reqs'[s].ts /\ n.updatedAt <= reqs'[s].ts
      ]_vars

\* An Update took its timestamp, a Create with the id the Update names took
\* a later one and was saved, and then the store applied the Update: the
\* note's updatedAt is the Update's timestamp, behind its createdAt.
C16_Witness ==
    /\ last.pc = "done" /\ last.route = "update" /\ last.status = 200
    /\ \E n \in store :
          /\ n.id = last.id
          /\ n.updatedAt = last.ts
          /\ n.updatedAt < n.createdAt
====
